---------------------------- MODULE Spec2Model ----------------------------
(***************************************************************************)
(* libdnf5::utils::Locker (libdnf5/utils/locker.cpp): a lock file guarded  *)
(* by a whole-file POSIX record lock.  The model has two layers.           *)
(*                                                                         *)
(*  - The operating system the code calls: per-process descriptor tables   *)
(*    (lowest free number on open), one directory entry per path, inodes   *)
(*    that live while they are linked or open, and per-process record      *)
(*    locks on inodes (released when the process closes any descriptor of  *)
(*    the inode).  Every system call may also fail for a reason of its     *)
(*    own; such injected failures are inputs of the actions.               *)
(*  - The Locker methods, translated statement by statement on top of the  *)
(*    system calls.  One action is one complete method call.               *)
(*                                                                         *)
(* held, everHeld and last are history variables.  held[l] is the state of *)
(* the documented state machine: the kind of lock the most recent lock     *)
(* attempt on l was granted, F_UNLCK when that attempt was not granted a   *)
(* lock or unlock() was called since.  last describes the call that was    *)
(* made last: its inputs, the system calls it made and what it returned.   *)
(* stale[l] says that Locker l passed the descriptor in lock_fd[l] to      *)
(* close and has not opened one since.  pc[l] is used where the system     *)
(* calls of a method are interleaved with those of other processes.        *)
(***************************************************************************)
EXTENDS Integers, Sequences, FiniteSets, TLC

\* ------------------------------------------------------------------ bounds
NumProcs == 3
MaxLockers == 2
MaxFds == 2
MaxInodes == 2
MaxLen == 2

\* The longest file and the largest buffer read_content() is run on.
MaxFileLen == 6

MaxBuf == 3

Procs == 1..NumProcs
Lockers == 1..MaxLockers
Fds == 0..(MaxFds - 1)
Inodes == 1..MaxInodes
Paths == {"/run/lock"}
Bytes == {"x"}

RECURSIVE SeqsUpTo(_)
SeqsUpTo(n) ==
    IF n = 0 THEN {<<>>}
    ELSE LET S == SeqsUpTo(n - 1)
         IN S \cup {Append(s, b) : s \in {t \in S : Len(t) = n - 1}, b \in Bytes}

Contents == SeqsUpTo(MaxLen)

\* --------------------------------------------------------------- constants
NotHeld == -1
NoInode == 0
NoProc == 0
NoPath == ""
F_UNLCK == "F_UNLCK"
F_RDLCK == "F_RDLCK"
F_WRLCK == "F_WRLCK"
OK == "OK"

Idle == "idle"

AtUnlink == "unlink"

ClosedFd == [ino |-> NoInode, pos |-> 0]

VARIABLES
    file,       \* file[pa]: inode linked at path pa, NoInode when absent
    data,       \* data[i]: content of inode i
    fdt,        \* fdt[p][fd]: open file description of descriptor fd in p
    locks,      \* locks[i][p]: whole-file record lock process p has on i
    owner,      \* owner[l]: process the Locker lives in, NoProc when not alive
    path,       \* path[l]: Locker::path
    lock_fd,    \* lock_fd[l]: Locker::lock_fd
    held,       \* held[l]: F_UNLCK, or the kind of lock last granted to l
    everHeld,   \* everHeld[l]: some lock attempt on l has returned true
    stale,      \* stale[l]: l passed lock_fd[l] to close and opened none since
    pc,         \* pc[l]: where l is inside a call made step by step
    last        \* the call made last and its outcome

vars == <<file, data, fdt, locks, owner, path, lock_fd, held, everHeld, stale, pc, last>>

OS == [file |-> file, data |-> data, fdt |-> fdt, locks |-> locks]

\* ------------------------------------------------------------ system calls
IsOpenFd(os, p, fd) == fd \in Fds /\ os.fdt[p][fd].ino # NoInode

HasFd(os, i) == \E p \in Procs : \E fd \in Fds : os.fdt[p][fd].ino = i

InodeInUse(os, i) == HasFd(os, i) \/ (\E pa \in Paths : os.file[pa] = i)

FreeFds(os, p) == {fd \in Fds : os.fdt[p][fd].ino = NoInode}

FreeInodes(os) == {i \in Inodes : ~InodeInUse(os, i)}

Min(S) == CHOOSE x \in S : \A y \in S : x <= y

\* An inode that is neither linked nor open is gone: its storage is released.
Reclaim(os) ==
    [os EXCEPT !.data = [i \in Inodes |-> IF InodeInUse(os, i) THEN os.data[i] ELSE <<>>]]

\* open(path, O_CREAT | O_RDWR | O_CLOEXEC, 0660)
sys_open(os, p, pa, inj) ==
    IF inj # OK THEN [rc |-> -1, errno |-> inj, os |-> os]
    ELSE IF FreeFds(os, p) = {} THEN [rc |-> -1, errno |-> "EMFILE", os |-> os]
    ELSE IF os.file[pa] = NoInode /\ FreeInodes(os) = {}
         THEN [rc |-> -1, errno |-> "ENOSPC", os |-> os]
    ELSE LET fd == Min(FreeFds(os, p))
             created == os.file[pa] = NoInode
             i == IF created THEN Min(FreeInodes(os)) ELSE os.file[pa]
         IN [rc |-> fd, errno |-> OK,
             os |-> [os EXCEPT !.fdt[p][fd] = [ino |-> i, pos |-> 0],
                               !.file[pa] = i,
                               !.data[i] = IF created THEN <<>> ELSE @]]

Conflicts(os, p, i, type) ==
    \E q \in Procs \ {p} :
        \/ os.locks[i][q] = F_WRLCK
        \/ type = F_WRLCK /\ os.locks[i][q] # F_UNLCK

\* fcntl(fd, F_SETLK, &fl) with fl covering the whole file.  busy is the error
\* code the system uses to report a conflicting lock (EACCES or EAGAIN).
sys_fcntl(os, p, fd, type, inj, busy) ==
    IF ~IsOpenFd(os, p, fd) THEN [rc |-> -1, errno |-> "EBADF", os |-> os]
    ELSE IF inj # OK THEN [rc |-> -1, errno |-> inj, os |-> os]
    ELSE LET i == os.fdt[p][fd].ino
         IN IF Conflicts(os, p, i, type)
            THEN [rc |-> -1, errno |-> busy, os |-> os]
            ELSE [rc |-> 0, errno |-> OK, os |-> [os EXCEPT !.locks[i][p] = type]]

\* close(fd): the descriptor is released also when close reports an error, and
\* every record lock the process has on the file is dropped with it.
sys_close(os, p, fd, inj) ==
    IF ~IsOpenFd(os, p, fd) THEN [rc |-> -1, errno |-> "EBADF", os |-> os]
    ELSE LET i == os.fdt[p][fd].ino
             os1 == [os EXCEPT !.fdt[p][fd] = ClosedFd, !.locks[i][p] = F_UNLCK]
         IN [rc |-> IF inj # OK THEN -1 ELSE 0, errno |-> inj, os |-> Reclaim(os1)]

\* unlink(path)
sys_unlink(os, pa, inj) ==
    IF os.file[pa] = NoInode THEN [rc |-> -1, errno |-> "ENOENT", os |-> os]
    ELSE IF inj # OK THEN [rc |-> -1, errno |-> inj, os |-> os]
    ELSE [rc |-> 0, errno |-> OK, os |-> Reclaim([os EXCEPT !.file[pa] = NoInode])]

\* ftruncate(fd, 0)
sys_ftruncate(os, p, fd, inj) ==
    IF ~IsOpenFd(os, p, fd) THEN [rc |-> -1, errno |-> "EBADF", os |-> os]
    ELSE IF inj # OK THEN [rc |-> -1, errno |-> inj, os |-> os]
    ELSE [rc |-> 0, errno |-> OK, os |-> [os EXCEPT !.data[os.fdt[p][fd].ino] = <<>>]]

\* lseek(fd, 0, SEEK_SET)
sys_lseek(os, p, fd, inj) ==
    IF ~IsOpenFd(os, p, fd) THEN [rc |-> -1, errno |-> "EBADF", os |-> os]
    ELSE IF inj # OK THEN [rc |-> -1, errno |-> inj, os |-> os]
    ELSE [rc |-> 0, errno |-> OK, os |-> [os EXCEPT !.fdt[p][fd].pos = 0]]

Take(s, n) == IF n >= Len(s) THEN s ELSE SubSeq(s, 1, n)

Drop(s, n) == IF n >= Len(s) THEN <<>> ELSE SubSeq(s, n + 1, Len(s))

RECURSIVE Zeros(_)
Zeros(n) == IF n <= 0 THEN <<>> ELSE <<"0">> \o Zeros(n - 1)

\* write(fd, buf, count): the system decides how many bytes it takes, w in
\* 1..count, or fails (w = -1).  Bytes go to the descriptor's position.
sys_write(os, p, fd, buf, w) ==
    IF ~IsOpenFd(os, p, fd) THEN [rc |-> -1, errno |-> "EBADF", os |-> os]
    ELSE IF w = -1 THEN [rc |-> -1, errno |-> "ENOSPC", os |-> os]
    ELSE LET i == os.fdt[p][fd].ino
             at == os.fdt[p][fd].pos
             old == os.data[i]
             new == Take(old, at) \o Zeros(at - Len(old)) \o Take(buf, w) \o Drop(old, at + w)
         IN [rc |-> w, errno |-> OK,
             os |-> [os EXCEPT !.data[i] = new, !.fdt[p][fd].pos = at + w]]

\* fsync(fd)
sys_fsync(os, p, fd, inj) ==
    IF ~IsOpenFd(os, p, fd) THEN [rc |-> -1, errno |-> "EBADF", os |-> os]
    ELSE IF inj # OK THEN [rc |-> -1, errno |-> inj, os |-> os]
    ELSE [rc |-> 0, errno |-> OK, os |-> os]

\* read(fd, buffer, count) on a regular file: everything up to count bytes
\* that lies between the position and the end of the file.
sys_read(os, p, fd, count, inj) ==
    IF ~IsOpenFd(os, p, fd) THEN [rc |-> -1, errno |-> "EBADF", buf |-> <<>>, os |-> os]
    ELSE IF inj # OK THEN [rc |-> -1, errno |-> inj, buf |-> <<>>, os |-> os]
    ELSE LET i == os.fdt[p][fd].ino
             at == os.fdt[p][fd].pos
             rest == Drop(os.data[i], at)
             n == IF Len(rest) < count THEN Len(rest) ELSE count
         IN [rc |-> n, errno |-> OK, buf |-> Take(rest, n),
             os |-> [os EXCEPT !.fdt[p][fd].pos = at + n]]

\* ----------------------------------------------------------------- results
\* What a call gives back to its caller: a return value or a thrown exception.
Return(kind) == [kind |-> kind, errno |-> OK, msg |-> "", path |-> "", content |-> <<>>]

ReturnContent(c) == [kind |-> "content", errno |-> OK, msg |-> "", path |-> "", content |-> c]

SystemError(errno, msg, pa) ==
    [kind |-> "SystemError", errno |-> errno, msg |-> msg, path |-> pa, content |-> <<>>]

RuntimeError(msg, pa) ==
    [kind |-> "RuntimeError", errno |-> OK, msg |-> msg, path |-> pa, content |-> <<>>]

Threw(r) == r.kind \in {"SystemError", "RuntimeError"}

\* Nothing was caught.
NoCaught == Return("none")

\* One system call as the code saw it.
Sys(call, r) == [call |-> call, rc |-> r.rc, errno |-> r.errno]

\* ------------------------------------------------------------ Locker::lock
\* Every failure of the lock request taken for a busy lock.
IsContention_AnyError(errno) == TRUE

IsContention(errno) == errno = "EACCES" \/ errno = "EAGAIN"

lock(os, p, pa, type, in) ==
    LET o == sys_open(os, p, pa, in.open)
    IN IF o.rc = -1
       THEN [ret |-> SystemError(o.errno, "Failed to open lock file", pa),
             lock_fd |-> o.rc, os |-> o.os, trace |-> <<Sys("open", o)>>]
       ELSE LET f == sys_fcntl(o.os, p, o.rc, type, in.fcntl, in.busy)
                t == <<Sys("open", o), Sys("fcntl", f)>>
            IN IF f.rc = -1
               THEN IF IsContention(f.errno)
                    THEN [ret |-> Return("false"), lock_fd |-> o.rc, os |-> f.os, trace |-> t]
                    ELSE [ret |-> SystemError(f.errno, "Failed to obtain lock", pa),
                          lock_fd |-> o.rc, os |-> f.os, trace |-> t]
               ELSE [ret |-> Return("true"), lock_fd |-> o.rc, os |-> f.os, trace |-> t]

\* A read_lock that asks for the exclusive lock.
read_lock_Exclusive(os, p, pa, in) == lock(os, p, pa, F_WRLCK, in)

read_lock(os, p, pa, in) == lock(os, p, pa, F_RDLCK, in)

write_lock(os, p, pa, in) == lock(os, p, pa, F_WRLCK, in)

\* ---------------------------------------------------------- Locker::unlock
\* unlock() that closes the descriptor and leaves the lock file in place.
unlock_KeepsFile(os, p, pa, fd, in) ==
    IF fd # NotHeld
    THEN LET c == sys_close(os, p, fd, in.close)
         IN IF c.rc = -1
            THEN [ret |-> SystemError(c.errno, "Failed to close lock file", pa),
                  os |-> c.os, trace |-> <<Sys("close", c)>>]
            ELSE [ret |-> Return("void"), os |-> c.os, trace |-> <<Sys("close", c)>>]
    ELSE [ret |-> Return("void"), os |-> os, trace |-> <<>>]

unlock(os, p, pa, fd, in) ==
    IF fd # NotHeld
    THEN LET c == sys_close(os, p, fd, in.close)
         IN IF c.rc = -1
            THEN [ret |-> SystemError(c.errno, "Failed to close lock file", pa),
                  os |-> c.os, trace |-> <<Sys("close", c)>>]
            ELSE LET u == sys_unlink(c.os, pa, in.unlink)
                     t == <<Sys("close", c), Sys("unlink", u)>>
                 IN IF u.rc = -1
                    THEN [ret |-> SystemError(u.errno, "Failed to delete lock file", pa),
                          os |-> u.os, trace |-> t]
                    ELSE [ret |-> Return("void"), os |-> u.os, trace |-> t]
    ELSE [ret |-> Return("void"), os |-> os, trace |-> <<>>]

\* --------------------------------------------------------- Locker::~Locker
\* try { unlock(); } catch (...) {}
\* A destructor that does not call unlock().
destructor_NoUnlock(os, p, pa, fd, in) ==
    [ret |-> Return("void"), caught |-> NoCaught, os |-> os, trace |-> <<>>]

\* A destructor that lets the error of unlock() out.
destructor_Rethrows(os, p, pa, fd, in) ==
    LET r == unlock(os, p, pa, fd, in)
    IN [ret |-> r.ret, caught |-> r.ret, os |-> r.os, trace |-> r.trace]

destructor(os, p, pa, fd, in) ==
    LET r == unlock(os, p, pa, fd, in)
    IN [ret |-> Return("void"), caught |-> r.ret, os |-> r.os, trace |-> r.trace]

\* --------------------------------------------------- Locker::write_content
write_content(os, p, pa, fd, content, in) ==
    IF fd = NotHeld
    THEN [ret |-> RuntimeError("The lock file is not opened", pa), os |-> os, trace |-> <<>>]
    ELSE LET tr == sys_ftruncate(os, p, fd, in.trunc)
         IN IF tr.rc = -1
            THEN [ret |-> SystemError(tr.errno, "Failed to truncate lock file", pa),
                  os |-> tr.os, trace |-> <<Sys("ftruncate", tr)>>]
            ELSE LET sk == sys_lseek(tr.os, p, fd, in.seek)
                 IN IF sk.rc = -1
                    THEN [ret |-> SystemError(sk.errno, "Failed to seek lock file", pa),
                          os |-> sk.os, trace |-> <<Sys("ftruncate", tr), Sys("lseek", sk)>>]
                    ELSE LET wr == sys_write(sk.os, p, fd, content, in.written)
                             t3 == <<Sys("ftruncate", tr), Sys("lseek", sk), Sys("write", wr)>>
                         IN IF wr.rc = -1
                            THEN [ret |-> SystemError(wr.errno, "Failed to write to lock file", pa),
                                  os |-> wr.os, trace |-> t3]
                            ELSE LET sy == sys_fsync(wr.os, p, fd, in.sync)
                                     t4 == Append(t3, Sys("fsync", sy))
                                 IN IF sy.rc = -1
                                    THEN [ret |-> SystemError(sy.errno, "Failed to sync lock file", pa),
                                          os |-> sy.os, trace |-> t4]
                                    ELSE [ret |-> Return("void"), os |-> sy.os, trace |-> t4]

\* ---------------------------------------------------- Locker::read_content
sizeof_buffer == 1024

\* A loop that reads once and takes what it got for the whole file.
read_loop_Once(os, p, pa, fd, content, trace, inj, size) ==
    LET rd == sys_read(os, p, fd, size, inj)
        t == Append(trace, Sys("read", rd))
    IN IF rd.rc = -1
       THEN [ret |-> SystemError(rd.errno, "Failed to read from lock file", pa),
             os |-> rd.os, trace |-> t]
       ELSE [ret |-> ReturnContent(content \o rd.buf), os |-> rd.os, trace |-> t]

\* while (true) { read; if -1 throw; if 0 break; append }, the buffer being
\* of size bytes.
RECURSIVE read_loop(_, _, _, _, _, _, _, _)
read_loop(os, p, pa, fd, content, trace, inj, size) ==
    LET rd == sys_read(os, p, fd, size, inj)
        t == Append(trace, Sys("read", rd))
    IN IF rd.rc = -1
       THEN [ret |-> SystemError(rd.errno, "Failed to read from lock file", pa),
             os |-> rd.os, trace |-> t]
       ELSE IF rd.rc = 0
       THEN [ret |-> ReturnContent(content), os |-> rd.os, trace |-> t]
       ELSE read_loop(rd.os, p, pa, fd, content \o rd.buf, t, OK, size)

\* read_content() with a buffer of size bytes.
read_content_sized(os, p, pa, fd, in, size) ==
    IF fd = NotHeld
    THEN [ret |-> RuntimeError("Cannot read content: no lock held on file", pa),
          os |-> os, trace |-> <<>>]
    ELSE LET sk == sys_lseek(os, p, fd, in.seek)
         IN IF sk.rc = -1
            THEN [ret |-> SystemError(sk.errno, "Failed to seek lock file", pa),
                  os |-> sk.os, trace |-> <<Sys("lseek", sk)>>]
            ELSE read_loop(sk.os, p, pa, fd, <<>>, <<Sys("lseek", sk)>>, in.read, size)

\* A read_content that closes the descriptor once it has read the file.
read_content_Closes(os, p, pa, fd, in) ==
    LET r == read_content_sized(os, p, pa, fd, in, sizeof_buffer)
    IN [r EXCEPT !.os = sys_close(r.os, p, fd, OK).os]

read_content(os, p, pa, fd, in) == read_content_sized(os, p, pa, fd, in, sizeof_buffer)

\* ------------------------------------------------------------------ inputs
\* What the environment decides in a call: an error of its own for a system
\* call (OK: none), the code reporting a busy lock, the count write returns.
\* The system calls an input makes fail for a reason of their own.
Faults(in) == {f \in DOMAIN in \ {"busy", "written"} : in[f] # OK}

\* At most one system call of a method call is made to fail this way.
AtMostOne(S) == {in \in S : Cardinality(Faults(in)) <= 1}

LockInputs ==
    AtMostOne([open : {OK, "EACCES"}, fcntl : {OK, "ENOLCK"}, busy : {"EAGAIN", "EACCES"}])

UnlockInputs == AtMostOne([close : {OK, "EIO"}, unlink : {OK, "EPERM"}])

\* The counts write may return for a buffer: all of it, a part of it, or -1.
WriteCounts(content) ==
    {-1} \cup (IF Len(content) = 0 THEN {0} ELSE 1..Len(content))

WriteInputs(content) ==
    [trunc : {OK}, seek : {OK}, written : WriteCounts(content), sync : {OK}]
        \cup [trunc : {OK, "EIO"}, seek : {OK, "EINVAL"}, written : {Len(content)},
              sync : {OK, "EIO"}]

ReadInputs == [seek : {OK, "EINVAL"}, read : {OK, "EIO"}]

NoInputs == [none |-> OK]

NoCall ==
    [op |-> "none", l |-> 0, p |-> NoProc, path |-> NoPath, arg |-> <<>>,
     pre |-> F_UNLCK, fd |-> NotHeld, stale |-> FALSE, faults |-> {},
     afterUnlock |-> FALSE, ret |-> Return("void"), caught |-> NoCaught, trace |-> <<>>]

\* ------------------------------------------------------------------- state
\* Locker::lock_fd as declared in the class (locker.hpp): the sentinel.
DefaultLockFd == NotHeld

Init ==
    /\ file = [pa \in Paths |-> NoInode]
    /\ data = [i \in Inodes |-> <<>>]
    /\ fdt = [p \in Procs |-> [fd \in Fds |-> ClosedFd]]
    /\ locks = [i \in Inodes |-> [p \in Procs |-> F_UNLCK]]
    /\ owner = [l \in Lockers |-> NoProc]
    /\ path = [l \in Lockers |-> NoPath]
    /\ lock_fd = [l \in Lockers |-> DefaultLockFd]
    /\ held = [l \in Lockers |-> F_UNLCK]
    /\ everHeld = [l \in Lockers |-> FALSE]
    /\ stale = [l \in Lockers |-> FALSE]
    /\ pc = [l \in Lockers |-> Idle]
    /\ last = NoCall

Alive(l) == owner[l] # NoProc

\* The call made last was an unlock() of a held Locker that returned normally.
Unlocked == last.op = "unlock" /\ last.pre # F_UNLCK /\ last.ret.kind = "void"

Call(op, l, arg, in, r, caught) ==
    [op |-> op, l |-> l, p |-> owner[l], path |-> path[l], arg |-> arg,
     pre |-> held[l], fd |-> lock_fd[l], stale |-> stale[l],
     faults |-> Faults(in), afterUnlock |-> Unlocked,
     ret |-> r.ret, caught |-> caught, trace |-> r.trace]

SetOS(os) ==
    /\ file' = os.file
    /\ data' = os.data
    /\ fdt' = os.fdt
    /\ locks' = os.locks

\* The process Locker l is created in.
Home(l) == ((l - 1) % NumProcs) + 1

\* Locker::Locker(path) in process p
Construct(l, p) ==
    /\ ~Alive(l)
    /\ \E pa \in Paths :
        /\ owner' = [owner EXCEPT ![l] = p]
        /\ path' = [path EXCEPT ![l] = pa]
        /\ lock_fd' = [lock_fd EXCEPT ![l] = DefaultLockFd]
        /\ held' = [held EXCEPT ![l] = F_UNLCK]
        /\ everHeld' = [everHeld EXCEPT ![l] = FALSE]
        /\ stale' = [stale EXCEPT ![l] = FALSE]
        /\ last' = Call("Locker", l, <<>>, NoInputs, [ret |-> Return("void"), trace |-> <<>>],
                         NoCaught)
        /\ UNCHANGED <<file, data, fdt, locks, pc>>

AfterLock(l, op, type, in, r) ==
    /\ SetOS(r.os)
    /\ lock_fd' = [lock_fd EXCEPT ![l] = r.lock_fd]
    /\ held' = [held EXCEPT ![l] = IF r.ret.kind = "true" THEN type ELSE F_UNLCK]
    /\ everHeld' = [everHeld EXCEPT ![l] = @ \/ r.ret.kind = "true"]
    /\ stale' = [stale EXCEPT ![l] = FALSE]
    /\ last' = Call(op, l, <<>>, in, r, NoCaught)
    /\ UNCHANGED <<owner, path, pc>>

ReadLock(l, I) ==
    /\ Alive(l)
    /\ \E in \in I :
        AfterLock(l, "read_lock", F_RDLCK, in, read_lock(OS, owner[l], path[l], in))

WriteLock(l, I) ==
    /\ Alive(l)
    /\ \E in \in I :
        AfterLock(l, "write_lock", F_WRLCK, in, write_lock(OS, owner[l], path[l], in))

WriteContent(l) ==
    /\ Alive(l)
    /\ \E content \in Contents : \E in \in WriteInputs(content) :
        LET r == write_content(OS, owner[l], path[l], lock_fd[l], content, in)
        IN /\ SetOS(r.os)
           /\ last' = Call("write_content", l, content, in, r, NoCaught)
           /\ UNCHANGED <<owner, path, lock_fd, held, everHeld, stale, pc>>

ReadContent(l) ==
    /\ Alive(l)
    /\ \E in \in ReadInputs :
        LET r == read_content(OS, owner[l], path[l], lock_fd[l], in)
        IN /\ SetOS(r.os)
           /\ last' = Call("read_content", l, <<>>, in, r, NoCaught)
           /\ UNCHANGED <<owner, path, lock_fd, held, everHeld, stale, pc>>

Unlock(l, I) ==
    /\ Alive(l)
    /\ \E in \in I :
        LET r == unlock(OS, owner[l], path[l], lock_fd[l], in)
        IN /\ SetOS(r.os)
           /\ held' = [held EXCEPT ![l] = F_UNLCK]
           /\ stale' = [stale EXCEPT ![l] = @ \/ r.trace # <<>>]
           /\ last' = Call("unlock", l, <<>>, in, r, NoCaught)
           /\ UNCHANGED <<owner, path, lock_fd, everHeld, pc>>

Destroy(l, I) ==
    /\ Alive(l)
    /\ \E in \in I :
        LET r == destructor(OS, owner[l], path[l], lock_fd[l], in)
        IN /\ SetOS(r.os)
           /\ owner' = [owner EXCEPT ![l] = NoProc]
           /\ path' = [path EXCEPT ![l] = NoPath]
           /\ lock_fd' = [lock_fd EXCEPT ![l] = DefaultLockFd]
           /\ held' = [held EXCEPT ![l] = F_UNLCK]
           /\ everHeld' = [everHeld EXCEPT ![l] = FALSE]
           /\ stale' = [stale EXCEPT ![l] = FALSE]
           /\ UNCHANGED pc
           /\ last' = Call("~Locker", l, <<>>, in, r, r.caught)

\* Inputs in which no system call fails for a reason of its own.
NoFault(I) == {in \in I : Faults(in) = {}}

\* The life cycle of the Lockers, any system call failing.
Next ==
    \E l \in Lockers :
        \/ Construct(l, Home(l))
        \/ ReadLock(l, LockInputs)
        \/ WriteLock(l, LockInputs)
        \/ Unlock(l, UnlockInputs)
        \/ Destroy(l, UnlockInputs)

Spec == Init /\ [][Next]_vars

\* The Locker has no descriptor open: a lock attempt on it leaks none.
Closed(l) == ~IsOpenFd(OS, owner[l], lock_fd[l])

ReadLockClosed(l, I) == Alive(l) /\ Closed(l) /\ ReadLock(l, I)

WriteLockClosed(l, I) == Alive(l) /\ Closed(l) /\ WriteLock(l, I)

\* The content operations, any of their system calls failing, between life
\* cycle operations whose system calls fail only for the state they meet,
\* by callers that unlock a Locker before they try to lock it again.
NextContent ==
    \E l \in Lockers :
        \/ Construct(l, Home(l))
        \/ ReadLockClosed(l, NoFault(LockInputs))
        \/ WriteLockClosed(l, NoFault(LockInputs))
        \/ WriteContent(l)
        \/ ReadContent(l)
        \/ Unlock(l, NoFault(UnlockInputs))
        \/ Destroy(l, NoFault(UnlockInputs))

SpecContent == Init /\ [][NextContent]_vars

\* ------------------------------------------------- read_content alone
\* A file of n bytes, each byte telling its place.
FileOfLen(n) == [k \in 1..n |-> k % 256]

\* A held Locker of process 1 whose descriptor 0 is at any position of a
\* lock file of any length.
InitRead ==
    \E n \in 0..MaxFileLen, at \in 0..MaxFileLen, type \in {F_RDLCK, F_WRLCK}, pa \in Paths :
        /\ file = [q \in Paths |-> IF q = pa THEN 1 ELSE NoInode]
        /\ data = [i \in Inodes |-> IF i = 1 THEN FileOfLen(n) ELSE <<>>]
        /\ fdt = [q \in Procs |-> [fd \in Fds |->
                    IF q = 1 /\ fd = 0 THEN [ino |-> 1, pos |-> at] ELSE ClosedFd]]
        /\ locks = [i \in Inodes |-> [q \in Procs |->
                    IF i = 1 /\ q = 1 THEN type ELSE F_UNLCK]]
        /\ owner = [l \in Lockers |-> IF l = 1 THEN 1 ELSE NoProc]
        /\ path = [l \in Lockers |-> IF l = 1 THEN pa ELSE NoPath]
        /\ lock_fd = [l \in Lockers |-> IF l = 1 THEN 0 ELSE DefaultLockFd]
        /\ held = [l \in Lockers |-> IF l = 1 THEN type ELSE F_UNLCK]
        /\ everHeld = [l \in Lockers |-> l = 1]
        /\ stale = [l \in Lockers |-> FALSE]
        /\ pc = [l \in Lockers |-> Idle]
        /\ last = NoCall

\* read_content() with a buffer of size bytes; the call records the size.
ReadContentSized(l) ==
    /\ Alive(l)
    /\ \E size \in 1..MaxBuf : \E in \in ReadInputs :
        LET r == read_content_sized(OS, owner[l], path[l], lock_fd[l], in, size)
        IN /\ SetOS(r.os)
           /\ last' = Call("read_content", l, size, in, r, NoCaught)
           /\ UNCHANGED <<owner, path, lock_fd, held, everHeld, stale, pc>>

NextRead == \E l \in Lockers : ReadContentSized(l)

SpecRead == InitRead /\ [][NextRead]_vars

\* ------------------------------------------------ Lockers of one process
\* The life cycle of Lockers that all live in process 1, system calls
\* failing only for the state they meet.
NextOneProcess ==
    \E l \in Lockers :
        \/ Construct(l, 1)
        \/ ReadLock(l, NoFault(LockInputs))
        \/ WriteLock(l, NoFault(LockInputs))
        \/ Unlock(l, NoFault(UnlockInputs))
        \/ Destroy(l, NoFault(UnlockInputs))

SpecOneProcess == Init /\ [][NextOneProcess]_vars

\* ------------------------------------------- system calls interleaved
\* One Locker in every process, all on one path, each constructed.
InitSteps ==
    /\ file = [pa \in Paths |-> NoInode]
    /\ data = [i \in Inodes |-> <<>>]
    /\ fdt = [p \in Procs |-> [fd \in Fds |-> ClosedFd]]
    /\ locks = [i \in Inodes |-> [p \in Procs |-> F_UNLCK]]
    /\ owner = [l \in Procs |-> l]
    /\ path = [l \in Procs |-> CHOOSE pa \in Paths : TRUE]
    /\ lock_fd = [l \in Procs |-> DefaultLockFd]
    /\ held = [l \in Procs |-> F_UNLCK]
    /\ everHeld = [l \in Procs |-> FALSE]
    /\ stale = [l \in Procs |-> FALSE]
    /\ pc = [l \in Procs |-> Idle]
    /\ last = NoCall

\* lock(type) up to its open: lock_fd = open(...); throws when open fails.
LockOpen(l, type) ==
    /\ pc[l] = Idle
    /\ held[l] = F_UNLCK
    /\ LET o == sys_open(OS, owner[l], path[l], OK)
       IN /\ SetOS(o.os)
          /\ lock_fd' = [lock_fd EXCEPT ![l] = o.rc]
          /\ stale' = [stale EXCEPT ![l] = FALSE]
          /\ pc' = [pc EXCEPT ![l] = IF o.rc = -1 THEN Idle ELSE type]
          /\ UNCHANGED <<owner, path, held, everHeld, last>>

\* lock(type) from its lock request: true when the lock is granted, false
\* when it is busy.
LockRequest(l) ==
    /\ pc[l] \in {F_RDLCK, F_WRLCK}
    /\ LET f == sys_fcntl(OS, owner[l], lock_fd[l], pc[l], OK, "EAGAIN")
       IN /\ SetOS(f.os)
          /\ held' = [held EXCEPT ![l] = IF f.rc # -1 THEN pc[l] ELSE F_UNLCK]
          /\ everHeld' = [everHeld EXCEPT ![l] = @ \/ f.rc # -1]
          /\ pc' = [pc EXCEPT ![l] = Idle]
          /\ UNCHANGED <<owner, path, lock_fd, stale, last>>

\* unlock() of a Locker that holds a lock, up to its close.
UnlockClose(l) ==
    /\ pc[l] = Idle
    /\ held[l] # F_UNLCK
    /\ lock_fd[l] # NotHeld
    /\ LET c == sys_close(OS, owner[l], lock_fd[l], OK)
       IN /\ SetOS(c.os)
          /\ held' = [held EXCEPT ![l] = F_UNLCK]
          /\ stale' = [stale EXCEPT ![l] = TRUE]
          /\ pc' = [pc EXCEPT ![l] = IF c.rc = -1 THEN Idle ELSE AtUnlink]
          /\ UNCHANGED <<owner, path, lock_fd, everHeld, last>>

\* unlock() from its unlink.
UnlockUnlink(l) ==
    /\ pc[l] = AtUnlink
    /\ LET u == sys_unlink(OS, path[l], OK)
       IN /\ SetOS(u.os)
          /\ pc' = [pc EXCEPT ![l] = Idle]
          /\ UNCHANGED <<owner, path, lock_fd, held, everHeld, stale, last>>

\* Processes that try to lock while they hold no lock and unlock what they
\* hold, one system call at a time.
NextSteps ==
    \E l \in Procs :
        \/ LockOpen(l, F_RDLCK)
        \/ LockOpen(l, F_WRLCK)
        \/ LockRequest(l)
        \/ UnlockClose(l)
        \/ UnlockUnlink(l)

SpecSteps == InitSteps /\ [][NextSteps]_vars

\* ------------------------------------------------------------------ claims
LockOps == {"read_lock", "write_lock"}

ContentOps == {"read_content", "write_content"}

\* Two Lockers of different processes on the same path.
Independent(a, b) ==
    /\ a # b
    /\ Alive(a) /\ Alive(b)
    /\ owner[a] # owner[b]
    /\ path[a] = path[b]

\* A system call of the last call failed, other than the lock request
\* reporting a busy lock.
Disturbed ==
    \E k \in DOMAIN last.trace :
        /\ last.trace[k].rc = -1
        /\ ~(last.trace[k].call = "fcntl" /\ last.trace[k].errno \in {"EACCES", "EAGAIN"})

\* C1: while a holder has the exclusive lock (write_lock() returned true, no
\* unlock since), write_lock() of an independent holder returns false,
\* leaves the first holder's lock granted, and never are two independent
\* holders both holding an exclusive lock.
C1_ExclusiveOnce ==
    \A a, b \in Lockers :
        Independent(a, b) /\ held[a] = F_WRLCK =>
            /\ held[b] # F_WRLCK
            /\ (last.op = "write_lock" /\ last.l = b /\ ~Disturbed) =>
                    /\ last.ret.kind = "false"
                    /\ \E i \in Inodes : locks[i][owner[a]] = F_WRLCK

\* C2: while a holder has a shared lock write_lock() of an independent holder
\* returns false, and while a holder has the exclusive lock read_lock() of an
\* independent holder returns false.
C2_SharedExcludesExclusive ==
    \A a, b \in Lockers :
        (/\ Independent(a, b)
         /\ last.l = b
         /\ ~Disturbed
         /\ \/ held[a] = F_RDLCK /\ last.op = "write_lock"
            \/ held[a] = F_WRLCK /\ last.op = "read_lock")
        => last.ret.kind = "false"

\* C3: a lock attempt that returns false on a Locker whose lock_fd is the
\* sentinel leaves lock_fd the sentinel.
C3_FalseLeavesUnheld ==
    (last.op \in LockOps /\ last.ret.kind = "false" /\ last.fd = NotHeld)
        => lock_fd[last.l] = NotHeld

\* C4: while a Locker is held the lock file exists at its path.
C4_HeldFileExists ==
    \A l \in Lockers : Alive(l) /\ held[l] # F_UNLCK => file[path[l]] # NoInode

\* C5: unlock() called directly after an unlock() of a held Locker that
\* returned normally makes no system call and returns normally.
C5_UnlockIdempotent ==
    [][(Unlocked /\ last'.op = "unlock" /\ last'.l = last.l)
            => (last'.trace = <<>> /\ last'.ret.kind = "void")]_vars

\* C6: after unlock() of a held Locker returned normally the lock file does
\* not exist at the path, and a lock attempt made next on that path, with no
\* Locker holding a lock, returns true unless a system call fails.
C6_UnlockReleases ==
    /\ Unlocked => file[last.path] = NoInode
    /\ (/\ last.op \in LockOps
        /\ last.afterUnlock
        /\ \A m \in Lockers \ {last.l} : held[m] = F_UNLCK
        /\ ~Disturbed)
       => last.ret.kind = "true"

C6_Witness ==
    /\ last.op \in LockOps
    /\ last.afterUnlock
    /\ \A m \in Lockers \ {last.l} : held[m] = F_UNLCK
    /\ last.ret.kind = "true"
    /\ file[last.path] # NoInode

\* C7: read_content() and write_content() on a Locker that was never granted
\* a lock throw RuntimeError and make no system call.
C7_ContentNeedsLock ==
    (last.op \in ContentOps /\ ~everHeld[last.l])
        => (last.ret.kind = "RuntimeError" /\ last.trace = <<>>)

\* C8: the destructor of a held Locker, its system calls failing only for the
\* state they meet, closes the Locker's descriptor, which drops the record
\* lock, and leaves no lock file at the path.
C8_DestructorCleansUp ==
    (last.op = "~Locker" /\ last.pre # F_UNLCK /\ last.faults = {})
        => /\ ~IsOpenFd(OS, last.p, last.fd)
           /\ Len(last.trace) >= 1
           /\ last.trace[1] = [call |-> "close", rc |-> 0, errno |-> OK]
           /\ file[last.path] = NoInode

C8_Witness ==
    /\ last.op = "~Locker"
    /\ last.pre # F_UNLCK
    /\ last.faults = {}
    /\ Len(last.trace) = 2
    /\ last.trace[2] = [call |-> "unlink", rc |-> 0, errno |-> OK]

\* C9: a lock attempt returns false exactly when the lock request fails with
\* EACCES or EAGAIN, returns true exactly when the lock request succeeds, and
\* throws SystemError with the error code and the path when open fails or the
\* lock request fails with another code.
C9_LockOutcome ==
    last.op \in LockOps =>
        LET t == last.trace
            o == t[1]
            openFailed == o.rc = -1
            busy == ~openFailed /\ t[2].rc = -1 /\ t[2].errno \in {"EACCES", "EAGAIN"}
            granted == ~openFailed /\ t[2].rc # -1
        IN /\ o.call = "open"
           /\ ~openFailed => Len(t) = 2 /\ t[2].call = "fcntl"
           /\ last.ret.kind = "false" <=> busy
           /\ last.ret.kind = "true" <=> granted
           /\ openFailed =>
                last.ret = SystemError(o.errno, "Failed to open lock file", last.path)
           /\ (~openFailed /\ ~busy /\ ~granted) =>
                last.ret = SystemError(t[2].errno, "Failed to obtain lock", last.path)

C9_Witness ==
    /\ last.op \in LockOps
    /\ last.ret.kind = "false"
    /\ last.trace[2].errno = "EACCES"

\* C10: write_content(content) returns normally only when write took all
\* bytes of content and the sync succeeded; fewer bytes make it throw.
C10_PartialWriteIsError ==
    (last.op = "write_content" /\ last.ret.kind = "void")
        => /\ Len(last.trace) = 4
           /\ last.trace[3].call = "write" /\ last.trace[3].rc = Len(last.arg)
           /\ last.trace[4].call = "fsync" /\ last.trace[4].rc = 0

\* C11: on a Locker holding the exclusive lock, read_content() called
\* directly after a write_content(X) that returned normally returns exactly
\* X, whatever was written before and also when X is shorter than it.
C11_RoundTrip ==
    [][(/\ last.op = "write_content"
        /\ last.ret.kind = "void"
        /\ held[last.l] = F_WRLCK
        /\ last'.op = "read_content"
        /\ last'.l = last.l
        /\ last'.ret.kind = "content")
            => last'.ret.content = last.arg]_vars

\* No close of the call failed.
CloseKept(trace) ==
    \A k \in DOMAIN trace : trace[k].call = "close" => trace[k].rc = 0

\* C12: once the destructor has finished, no close having failed, every
\* descriptor the Locker opened is closed; here for the descriptor that the
\* Locker's last lock attempt found open in lock_fd and replaced there, the
\* Locker being destroyed next.
C12_NoDescriptorLeak ==
    [][(/\ last.op \in LockOps
        /\ last.fd # NotHeld
        /\ lock_fd[last.l] # last.fd
        /\ IsOpenFd(OS, last.p, last.fd)
        /\ last'.op = "~Locker"
        /\ last'.l = last.l
        /\ CloseKept(last'.trace))
            => ~IsOpenFd(OS', last.p, last.fd)]_vars

\* No exclusive lock is present: no Locker holds one and no process other
\* than those of a and b has one granted.
NoExclusive(a, b) ==
    /\ \A m \in Lockers : held[m] # F_WRLCK
    /\ \A q \in Procs \ {owner[a], owner[b]} : \A i \in Inodes : locks[i][q] # F_WRLCK

\* C13: while a holder holds a shared lock and no exclusive lock is present,
\* read_lock() of an independent holder returns true unless a system call
\* fails, and both hold a shared lock at the same time.
C13_SharedCoexist ==
    \A a, b \in Lockers :
        (/\ Independent(a, b)
         /\ held[a] = F_RDLCK
         /\ NoExclusive(a, b)
         /\ last.op = "read_lock" /\ last.l = b
         /\ ~Disturbed)
        => /\ last.ret.kind = "true"
           /\ held[b] = F_RDLCK
           /\ \E i \in Inodes : locks[i][owner[a]] = F_RDLCK
           /\ \E i \in Inodes : locks[i][owner[b]] = F_RDLCK

C13_Witness ==
    \E a, b \in Lockers :
        /\ Independent(a, b)
        /\ held[a] = F_RDLCK /\ held[b] = F_RDLCK
        /\ last.op = "read_lock" /\ last.l = b /\ last.ret.kind = "true"
        /\ \E i \in Inodes :
            /\ file[path[a]] = i
            /\ locks[i][owner[a]] = F_RDLCK
            /\ locks[i][owner[b]] = F_RDLCK

\* The system calls of the last call that failed.
Failed == {k \in DOMAIN last.trace : last.trace[k].rc = -1}

\* C14: the destructor returns normally whatever close or unlink report, the
\* error being caught and dropped, while unlock() throws SystemError with the
\* code of the system call that failed.
C14_DestructorSwallows ==
    /\ last.op = "~Locker" =>
        /\ last.ret = Return("void")
        /\ Failed = {} => last.caught = Return("void")
        /\ \A k \in Failed :
            /\ last.caught.kind = "SystemError"
            /\ last.caught.errno = last.trace[k].errno
    /\ last.op = "unlock" =>
        /\ Failed = {} => last.ret = Return("void")
        /\ \A k \in Failed :
            /\ last.ret.kind = "SystemError"
            /\ last.ret.errno = last.trace[k].errno
            /\ last.ret.path = last.path

C14_Witness ==
    /\ last.op = "~Locker"
    /\ last.ret = Return("void")
    /\ last.caught.kind = "SystemError"
    /\ \E k \in Failed : last.trace[k].call = "unlink"

\* C15: lock_fd of a Locker is the sentinel or a descriptor that is open in
\* its process, and it is the sentinel after unlock() returned normally.
C15_LockFdValid ==
    /\ \A l \in Lockers :
        Alive(l) => (lock_fd[l] = NotHeld \/ IsOpenFd(OS, owner[l], lock_fd[l]))
    /\ (last.op = "unlock" /\ last.ret.kind = "void") => lock_fd[last.l] = NotHeld

\* The step leaves the lock state as it is: every lock_fd, every granted
\* record lock, the file each path names and the file each descriptor is
\* open on.
LockStateKept ==
    /\ lock_fd' = lock_fd
    /\ locks' = locks
    /\ file' = file
    /\ \A q \in Procs : \A d \in Fds : fdt'[q][d].ino = fdt[q][d].ino

\* The step changes no descriptor but descriptor fd of process p.
OtherFdsKept(p, fd) ==
    \A q \in Procs : \A d \in Fds : (q # p \/ d # fd) => fdt'[q][d] = fdt[q][d]

\* The step changes the content of no file but the one descriptor fd of
\* process p is open on.
OtherDataKept(p, fd) ==
    \A i \in Inodes : (fd = NotHeld \/ fdt[p][fd].ino # i) => data'[i] = data[i]

\* C16 as stated: write_content() and read_content() leave the lock state
\* as it is, write_content() changes nothing but the content and length of
\* the file, read_content() nothing but the position of the descriptor.
C16_ContentFrame_Stated ==
    [][/\ last'.op = "write_content" =>
            (LockStateKept /\ OtherDataKept(last'.p, last'.fd) /\ fdt' = fdt)
       /\ last'.op = "read_content" =>
            (LockStateKept /\ OtherFdsKept(last'.p, last'.fd) /\ data' = data)]_vars

\* C16: write_content() and read_content(), returning or throwing, leave
\* the lock state as it is; write_content() changes nothing but the content
\* and length of the file and the position of the Locker's descriptor,
\* read_content() nothing but the position of the descriptor.
C16_ContentFrame ==
    [][/\ last'.op = "write_content" =>
            (LockStateKept /\ OtherDataKept(last'.p, last'.fd)
                /\ OtherFdsKept(last'.p, last'.fd))
       /\ last'.op = "read_content" =>
            (LockStateKept /\ OtherFdsKept(last'.p, last'.fd) /\ data' = data)]_vars

C16_Witness ==
    /\ last.op = "write_content"
    /\ last.ret.kind = "void"
    /\ last.pre # F_UNLCK
    /\ Len(last.arg) > 0
    /\ fdt[last.p][last.fd].pos = Len(last.arg)
    /\ data[file[last.path]] = last.arg
    /\ held[last.l] = last.pre

\* C17: read_content() on a held Locker, no system call failing, returns
\* after one read per buffer of content and one more, returns the whole
\* content of the file whatever the position was before and whatever the
\* length, and leaves the position at the end of the file.
C17_ReadsWholeFile ==
    (last.op = "read_content" /\ last.pre # F_UNLCK /\ last.faults = {}) =>
        LET whole == data[fdt[last.p][last.fd].ino]
            size == last.arg
        IN /\ last.ret = ReturnContent(whole)
           /\ fdt[last.p][last.fd].pos = Len(whole)
           /\ Len(last.trace) = 1 + ((Len(whole) + size - 1) \div size) + 1

C17_Witness ==
    /\ last.op = "read_content"
    /\ last.pre # F_UNLCK
    /\ last.faults = {}
    /\ Len(last.ret.content) = 2 * last.arg
    /\ last.ret.content = data[file[last.path]]
    /\ last.arg > 1

\* C19: unlock() or the destructor, called right after a lock attempt that
\* returned false on a Locker that was never granted a lock, leaves the
\* file at the path, the content of every file and every granted record
\* lock as they are.
C19_UnheldUnlockFrame ==
    [][(/\ last.op \in LockOps
        /\ last.ret.kind = "false"
        /\ ~everHeld[last.l]
        /\ last'.op \in {"unlock", "~Locker"}
        /\ last'.l = last.l)
            => (file' = file /\ data' = data /\ locks' = locks)]_vars

\* C20: unlock() or the destructor of a Locker that has passed lock_fd to
\* close, and opened no descriptor since, closes no descriptor, and unlinks
\* no lock file that another Locker holds.
C20_ClosesOnlyOwn ==
    (last.op \in {"unlock", "~Locker"} /\ last.stale) =>
        \A k \in DOMAIN last.trace :
            /\ last.trace[k].call = "close" => last.trace[k].rc = -1
            /\ (last.trace[k].call = "unlink" /\ last.trace[k].rc = 0) =>
                    \A m \in Lockers \ {last.l} :
                        ~(Alive(m) /\ path[m] = last.path /\ held[m] # F_UNLCK)

\* C18: the system calls of lock attempts and unlocks of three processes
\* interleaved in any order, no process holds the exclusive lock
\* (write_lock() returned true, unlock() not started) while another process
\* holds the exclusive or a shared lock.
C18_ExclusiveAlone ==
    \A a, b \in DOMAIN held :
        (Independent(a, b) /\ held[a] = F_WRLCK) => held[b] = F_UNLCK

=============================================================================
